---- MODULE Spec2Model ----
(***************************************************************************)
(* Model of the kotaemon retrieval pipeline:                               *)
(*   - VectorRetrieval.run  (indices/vectorindex.py)                       *)
(*   - LLMReranking.run     (indices/rankings/llm.py)                      *)
(*   - VectorIndexing.run   (indices/vectorindex.py)                       *)
(* Scores are integers: a vector-store similarity of 0.9 is written 9, and *)
(* the full-text sentinel -1.0 is written -1.                              *)
(***************************************************************************)
EXTENDS Integers, Sequences, FiniteSets, TLC

\* ------------------------------------------------------------------ bounds
\* longest answer a store gives to one search
MaxHits == 2
\* largest top_k argument of a retrieve call
MaxTopK == 2
\* largest thumbnail_count argument of a retrieve call
MaxThumb == 2
\* longest document list handed to the LLM-relevance filter on its own
MaxDocs == 3
\* longest batch handed to one ingestion run
MaxBatch == 2
\* most ingestion runs made with one VectorIndexing component
MaxRuns == 3
\* most pages of a loaded PDF
MaxPages == 3
\* most embedded images on one PDF page
MaxImages == 1

\* --------------------------------------------------------- program constants
\* VectorRetrieval.first_round_top_k_mult
FirstRoundTopKMult == 10
\* score given to a full-text hit
SentinelScore == -1
\* LLMReranking.top_k
LLMTopK == 3

\* ------------------------------------------------------------- the corpus
\* Documents the vector store can return for the query.
VectorIds == {"a", "b"}
\* Documents the full-text query can return.
TextIds == {"b", "c", "i1"}
\* A total order on ids, used by stores that answer in their own order.
OrderedIds == <<"a", "b", "c", "i1", "i2">>

\* Metadata of the ingested documents: "a" and "b" are text chunks of the
\* same page (thumbnail "i1"), "b" labelled with the page it runs over to,
\* "c" is a text chunk of another page (thumbnail "i2"), "i1" and "i2" are
\* the page thumbnails.
MetadataOf(id) ==
    CASE id = "a"  -> [thumbnail_doc_id |-> "i1", page_label |-> "1", file_name |-> "f.pdf"]
      [] id = "b"  -> [thumbnail_doc_id |-> "i1", page_label |-> "1-2"]
      [] id = "c"  -> [thumbnail_doc_id |-> "i2", page_label |-> "2", file_name |-> "f.pdf"]
      [] id = "i1" -> [type |-> "thumbnail", page_label |-> "1", image_origin |-> "png1"]
      [] OTHER     -> [type |-> "thumbnail", page_label |-> "2", image_origin |-> "png2"]

\* A stored Document.
DocumentOf(id) == [doc_id |-> id, content |-> id, metadata |-> MetadataOf(id)]

\* ------------------------------------------------------------ small helpers
Min(x, y) == IF x < y THEN x ELSE y

Range(s) == {s[i] : i \in 1..Len(s)}

Reverse(s) == [i \in 1..Len(s) |-> s[Len(s) + 1 - i]]

\* Injective sequences over S of length at most n.
InjSeqs(S, n) ==
    {s \in UNION {[1..k -> S] : k \in 0..n} :
        \A i, j \in 1..Len(s) : i # j => s[i] # s[j]}

\* dict.get(key): the value, or "None" when the key is absent.
MetaGet(metadata, key) == IF key \in DOMAIN metadata THEN metadata[key] ELSE "None"

\* metadata[key] = value
SetKey(metadata, key, value) ==
    [k \in DOMAIN metadata \cup {key} |-> IF k = key THEN value ELSE metadata[k]]

\* zip(xs, ys): pairs up to the shorter length.
ZipLen(xs, ys) == Min(Len(xs), Len(ys))

\* RetrievedDocument(**doc.to_dict(), score=score): a fresh object.
RetrievedDocument(doc, score) ==
    [doc_id |-> doc.doc_id, content |-> doc.content,
     metadata |-> doc.metadata, score |-> score]

\* ----------------------------------------------------------- collaborators
\* The vector store's answer to one similarity query: at most top_k ids,
\* no id twice.
VectorAnswers(top_k) == InjSeqs(VectorIds, Min(MaxHits, top_k))

\* The similarity score of the i-th vector hit (decreasing with the rank).
ScoreAt(i) == 10 - i

\* The scores returned along with the ids `ids`.
ScoresFor(ids) == [i \in 1..Len(ids) |-> ScoreAt(i)]

\* The document store's answer to one full-text query.
TextAnswers(top_k) == InjSeqs(TextIds, Min(MaxHits, top_k))

\* The ways a document store orders the answer of a by-id get.
GetOrders == {"request", "asc"}

\* The sets of ids a document store can fail to hold: nothing, or a text
\* chunk the vector store still lists together with a page thumbnail.
MissingSets == {{}, {"b", "i2"}}

\* The ids of S in the fixed order, ascending or descending.
IdsInOrder(S, order) ==
    LET asc == SelectSeq(OrderedIds, LAMBDA x : x \in S)
    IN  IF order = "desc" THEN Reverse(asc) ELSE asc

\* The document the store holds under id: the ingested one, its metadata
\* type overwritten if a write to the stored object has relabelled it.
StoredDocument(s, id) ==
    IF id \in s.image
    THEN [DocumentOf(id) EXCEPT !.metadata = SetKey(@, "type", "image")]
    ELSE DocumentOf(id)

\* doc_store.get(ids): the stored documents among ids, in the store's order.
DocStoreGet(s, ids) ==
    LET held == SelectSeq(ids, LAMBDA x : x \notin s.missing)
        out  == IF s.order = "request" THEN held
                ELSE IdsInOrder(Range(held), s.order)
    IN  [i \in 1..Len(out) |-> StoredDocument(s, out[i])]

\* doc_store.query(...): the documents of a full-text answer.
DocStoreQuery(s, ids) == [i \in 1..Len(ids) |-> StoredDocument(s, ids[i])]

\* list(thumbnail_doc_ids): the elements of a set of strings, in the
\* iteration order the running process gives that set.
ListOfSet(S, order) == IdsInOrder(S, order)

\* A reranker that is not the LLM-relevance variant: it reorders its input.
OtherRerankerRun(documents) == Reverse(documents)

\* ------------------------------------------------------- VectorRetrieval
\* documents[:n] for n >= 0
Take(documents, n) == SubSeq(documents, 1, Min(n, Len(documents)))

\* _filter_docs: `if top_k:` is false for None and for 0.
FilterDocs(documents, top_k) ==
    IF top_k # 0 THEN Take(documents, top_k) ELSE documents

\* top_k_first_round
TopKFirstRound(c) ==
    IF c.do_extend THEN c.top_k * FirstRoundTopKMult ELSE c.top_k

\* `if scope is not None:`
TruthyNotNone(scope) == scope # "none"

\* `if scope:` is false for None and for an empty collection.
Truthy(scope) == scope = "some"

\* `doc == s` for a Document doc and a str s, as evaluated by the membership
\* test below: an object of the Document class is never equal to a str,
\* whatever its doc_id.
DocEqualsStr(doc, s) == FALSE

\* `doc in vs_ids`: vs_ids holds id strings, doc is a Document.
DocInIdList(doc, ids) == \E i \in 1..Len(ids) : DocEqualsStr(doc, ids[i])

\* vector mode: pair the fetched documents with the scores by position.
PairWithScores(docs, scores) ==
    [i \in 1..ZipLen(docs, scores) |-> RetrievedDocument(docs[i], scores[i])]

\* text mode, and the text part of hybrid mode.
SentinelDocs(docs) ==
    [i \in 1..Len(docs) |-> RetrievedDocument(docs[i], SentinelScore)]

\* hybrid mode: the merged list built after both threads are joined.
HybridMerge(ds_docs, vs_ids, vs_docs, vs_scores) ==
    SentinelDocs(SelectSeq(ds_docs, LAMBDA d : ~DocInIdList(d, vs_ids)))
        \o PairWithScores(vs_docs, vs_scores)

\* ---------------------------------------------------------- LLMReranking
\* The filter without its guard against an empty result.
SelectRelevantNoFallback(documents, judged, top_k) ==
    LET n   == ZipLen(judged, documents)
        idx == SelectSeq([i \in 1..n |-> i], LAMBDA i : judged[i])
    IN  [k \in 1..Len(idx) |-> documents[idx[k]]]

\* Lines 67-76 of LLMReranking.run: keep the documents judged relevant, in
\* input order; when none is, the first top_k documents of the input.
\* `judged` holds one parsed boolean per document.
SelectRelevant(documents, judged, top_k) ==
    LET n        == ZipLen(judged, documents)
        idx      == SelectSeq([i \in 1..n |-> i], LAMBDA i : judged[i])
        filtered == [k \in 1..Len(idx) |-> documents[idx[k]]]
    IN  IF Len(filtered) = 0 THEN Take(documents, top_k) ELSE filtered

\* The filter falling back to its whole input.
LLMRerankingRunKeepsAll(documents, yes, top_k) ==
    SelectRelevant(documents,
                   [i \in 1..Len(documents) |-> documents[i].doc_id \in yes],
                   Len(documents))

\* LLMReranking.run inside a retrieve call, with a model that answers YES
\* for the documents whose id is in `yes` and NO for the others.
LLMRerankingRun(documents, yes, top_k) ==
    SelectRelevant(documents,
                   [i \in 1..Len(documents) |-> documents[i].doc_id \in yes],
                   top_k)

\* isinstance(reranker, LLMReranking): "llm" is an LLMReranking with the
\* default settings, "llm1" an LLMReranking constructed with top_k=1.
IsLLMReranking(reranker) == reranker \in {"llm", "llm1"}

\* Every reranker given the whole working list.
RerankerInputUntruncated(reranker, documents, top_k) == documents

\* Lines 468-470 of VectorRetrieval.run: the list a reranker is run on.
RerankerInput(reranker, documents, top_k) ==
    IF IsLLMReranking(reranker) THEN FilterDocs(documents, top_k) ELSE documents

\* self.top_k of an LLMReranking instance.
RerankerTopK(reranker) == IF reranker = "llm1" THEN 1 ELSE LLMTopK

\* What one model call can produce: a response text, or an exception.
LlmOutcomes == {"YES", "NO", " yes", "maybe", "<raises>"}

\* BooleanOutputParser.parse: surrounding blanks and letter case are
\* ignored; a text that is neither yes nor no is an error.
ParseBoolean(text) ==
    CASE text \in {"YES", " yes"} -> "true"
      [] text \in {"NO"}          -> "false"
      [] OTHER                    -> "error"

\* The results taken in the order the calls completed.
GatherAsCompleted(futures, completed) ==
    [k \in 1..Len(completed) |-> futures[completed[k]]]

\* results = [future.result() for future in futures]: the i-th result is
\* taken from the i-th future, whatever the order of completion.
GatherResults(futures, completed) == [i \in 1..Len(futures) |-> futures[i]]

\* The filter taking a response it cannot parse for a NO.
ParseAndSelectLenient(documents, results, top_k) ==
    LET parsed == [i \in 1..Len(results) |-> ParseBoolean(results[i])]
    IN  IF \E i \in 1..Len(results) : results[i] = "<raises>"
        THEN [status |-> "BackendError", docs |-> <<>>]
        ELSE [status |-> "ok",
              docs |-> SelectRelevant(documents,
                                      [i \in 1..Len(parsed) |-> parsed[i] = "true"],
                                      top_k)]

\* Lines 67-76 applied to the gathered response texts.
ParseAndSelect(documents, results, top_k) ==
    LET parsed == [i \in 1..Len(results) |-> ParseBoolean(results[i])]
    IN  IF \E i \in 1..Len(results) : results[i] = "<raises>"
        THEN [status |-> "BackendError", docs |-> <<>>]
        ELSE IF \E i \in 1..Len(parsed) : parsed[i] = "error"
        THEN [status |-> "ParseError", docs |-> <<>>]
        ELSE [status |-> "ok",
              docs |-> SelectRelevant(documents,
                                      [i \in 1..Len(parsed) |-> parsed[i] = "true"],
                                      top_k)]

\* ----------------------------------------------------- thumbnail assembly
\* The state of the partition loop before any document is seen.
EmptyPartition ==
    [ids |-> {}, text |-> [x \in {} |-> 0], non |-> <<>>, raw |-> <<>>]

\* One iteration of the partition loop (lines 484-498).
PartitionStep(acc, doc, thumbnail_count) ==
    IF MetaGet(doc.metadata, "type") = "thumbnail"
    THEN [acc EXCEPT !.raw = Append(@, [doc EXCEPT !.metadata = SetKey(@, "type", "image")])]
    ELSE IF "thumbnail_doc_id" \in DOMAIN doc.metadata
            /\ Cardinality(acc.ids) < thumbnail_count
    THEN LET tid == doc.metadata["thumbnail_doc_id"]
         IN  [acc EXCEPT !.ids  = @ \cup {tid},
                         !.text = [x \in acc.ids \cup {tid} |->
                                      IF x = tid THEN doc ELSE acc.text[x]]]
    ELSE [acc EXCEPT !.non = Append(@, doc)]

\* The partition loop over the truncated result.
RECURSIVE Partition(_, _, _)
Partition(docs, i, thumbnail_count) ==
    IF i = 0 THEN EmptyPartition
    ELSE PartitionStep(Partition(docs, i - 1, thumbnail_count), docs[i], thumbnail_count)

\* The entry synthesized with the text document's metadata taking precedence.
SynthesizeTextWins(thumbnail_doc, text_doc) ==
    LET md     == SetKey(thumbnail_doc.metadata, "type", "image")
        merged == [k \in DOMAIN md \cup DOMAIN text_doc.metadata |->
                      IF k \in DOMAIN text_doc.metadata THEN text_doc.metadata[k] ELSE md[k]]
    IN  [doc_id |-> text_doc.doc_id, content |-> text_doc.content,
         metadata |-> merged, score |-> text_doc.score]

\* The entry synthesized for one fetched thumbnail (lines 512-521).
Synthesize(thumbnail_doc, text_doc) ==
    LET md     == SetKey(thumbnail_doc.metadata, "type", "image")
        merged == [k \in DOMAIN md \cup DOMAIN text_doc.metadata |->
                      IF k \in DOMAIN md THEN md[k] ELSE text_doc.metadata[k]]
    IN  [doc_id |-> text_doc.doc_id, content |-> text_doc.content,
         metadata |-> merged, score |-> text_doc.score]

\* additional_docs: one synthesized entry per fetched thumbnail.
AdditionalDocs(linked, text_thumbnail_docs) ==
    [i \in 1..Len(linked) |-> Synthesize(linked[i], text_thumbnail_docs[linked[i].doc_id])]

\* Lines 473-527: final truncation, thumbnail assembly and the raw-thumbnail
\* fallback.  `order` is the iteration order of the set of thumbnail ids.
Assemble(docs, c, s, order) ==
    LET top      == FilterDocs(docs, c.top_k)
        part     == Partition(top, Len(top), c.thumbnail_count)
        linked   == DocStoreGet(s, ListOfSet(part.ids, order))
        combined == AdditionalDocs(linked, part.text) \o part.non
    IN  IF Len(combined) = 0
        THEN [docs |-> FilterDocs(part.raw, c.thumbnail_count), fallback |-> TRUE,
              relabelled |-> {part.raw[i].doc_id : i \in 1..Len(part.raw)}]
        ELSE [docs |-> combined, fallback |-> FALSE,
              relabelled |-> {part.raw[i].doc_id : i \in 1..Len(part.raw)}]

\* The relabelling done on the stored objects themselves.
StoreAfterRelabelShared(s, ids) == [s EXCEPT !.image = @ \cup ids]

\* The document store after the partition loop has relabelled the raw
\* thumbnails `ids` of the result: the loop writes to RetrievedDocument
\* objects built from doc.to_dict(), copies of the stored documents, so
\* the store keeps what it held.
StoreAfterRelabel(s, ids) == s

\* The check left out.
DocStoreCheckSkipped(c) == FALSE

\* `if self.doc_store is None`
DocStoreAbsent(c) == ~c.has_doc_store

\* ------------------------------------------------------------ diagnostics
\* The diagnostic probes of run, by the part of run that makes them:
\* before the doc_store check (the collection names of both stores, the
\* stores' paths, the LanceDB table sample, the vector-store count), in
\* vector mode before the query (the embedding preview, the Chroma
\* collection sample, the query kwargs), in hybrid mode before the threads
\* start and inside the vector-search thread, and before the return.
StartProbes == {"collection_name", "store_paths", "lancedb_sample", "vs_count"}

VectorProbes == {"embedding_preview", "chroma_sample", "query_kwargs"}

HybridProbes == {"embedding_preview"}

ThreadProbes == {"query_kwargs"}

FinishProbes == {"result_summary"}

\* The result summary printed outside any handler.
GuardedButSummary(probe) == probe # "result_summary"

\* Every probe is made inside a try block whose handler catches Exception
\* and goes on (with a default value, a message, or nothing).
Guarded(probe) == TRUE

\* The call goes on after the probe: it did not raise ("none"), or its
\* handler swallowed the exception.
Swallowed(probe) == probe = "none" \/ Guarded(probe)

VARIABLES
    cfg,        \* the component's settings and the arguments of the call
    store,      \* the document store (how it orders a get, what it lacks)
    vsAnswer,   \* what the vector store answers to this query, once asked
    dsAnswer,   \* what the document store answers to this text query, once asked
    llmYes,     \* ids the relevance model has answered YES for
    llmNo,      \* ids the relevance model has answered NO for
    setOrder,   \* iteration order of the thumbnail-id set, once observed
    pc,         \* position of the retrieve call
    vsPc,       \* the vector-search thread
    dsPc,       \* the text-search thread
    vs_ids, vs_scores, vs_docs, ds_docs,   \* the threads' result buffers
    result,     \* the working list
    rerankIdx,  \* index of the next reranker to apply
    calls,      \* collaborator calls made by the running retrieve call
    returns,    \* outcome of each finished retrieve call, oldest first
    probeRaised, \* a diagnostic probe has raised during the first retrieve call
    rr,         \* a run of LLMReranking.run on its own
    ix,         \* a VectorIndexing component, its stores and its run
    pdf         \* a call of PDFThumbnailReader.load_data

vars == <<cfg, store, vsAnswer, dsAnswer, llmYes, llmNo, setOrder, pc, vsPc, dsPc,
          vs_ids, vs_scores, vs_docs, ds_docs, result, rerankIdx, calls, returns,
          probeRaised, rr, ix, pdf>>

Modes == {"vector", "text", "hybrid"}

Scopes == {"none", "empty", "some"}

RerankerConfigs == {<<>>, <<"llm">>, <<"llm1">>, <<"other", "llm">>}

NoCalls == [embed |-> 0, vs_query |-> 0, ds_query |-> 0, ds_get |-> 0,
            llm |-> 0, threads |-> 0]

Configs ==
    [mode : Modes, top_k : 1..MaxTopK, thumbnail_count : 0..MaxThumb,
     scope : Scopes, do_extend : BOOLEAN, rerankers : RerankerConfigs,
     has_doc_store : BOOLEAN]

Stores == [order : GetOrders, missing : MissingSets, image : {{}}]

\* No reranker run of its own is under way.
RrIdle == [pc |-> "idle"]

\* No VectorIndexing component is in use.
IxOff == [pc |-> "off"]

\* No PDF is being loaded.
PdfOff == [pc |-> "off"]

Init ==
    /\ cfg \in Configs
    /\ store \in Stores
    /\ vsAnswer = {} /\ dsAnswer = {} /\ llmYes = {} /\ llmNo = {} /\ setOrder = {}
    /\ pc = "start" /\ vsPc = "idle" /\ dsPc = "idle"
    /\ vs_ids = <<>> /\ vs_scores = <<>> /\ vs_docs = <<>> /\ ds_docs = <<>>
    /\ result = <<>> /\ rerankIdx = 1
    /\ calls = NoCalls
    /\ returns = <<>>
    /\ probeRaised = FALSE
    /\ rr = RrIdle
    /\ ix = IxOff
    /\ pdf = PdfOff

\* A collaborator may raise only in the first call: a deterministic
\* collaborator that answered a request answers it again.
MayRaise == returns = <<>>

\* What the probes of one part of run do: none raises, or (in the first
\* call) one of them does.
ProbeOutcomes(probes) == IF MayRaise THEN probes \cup {"none"} ELSE {"none"}

\* The retrieve call ends: its locals are gone, its outcome is recorded.
Return(status, docs, fallback) ==
    /\ returns' = Append(returns, [status |-> status, docs |-> docs, fallback |-> fallback])
    /\ pc' = "done"
    /\ vs_ids' = <<>> /\ vs_scores' = <<>> /\ vs_docs' = <<>> /\ ds_docs' = <<>>
    /\ result' = <<>> /\ rerankIdx' = 1

Raise(status) == Return(status, <<>>, FALSE)

\* Lines 152-316: diagnostics, first-round top_k, the doc_store check.
Start ==
    /\ pc = "start"
    /\ \E probe \in ProbeOutcomes(StartProbes) :
         /\ probeRaised' = (probeRaised \/ probe # "none")
         /\ IF ~Swallowed(probe)
            THEN /\ Raise("DiagnosticError")
                 /\ UNCHANGED <<calls>>
            ELSE IF DocStoreAbsent(cfg)
            THEN /\ Raise("ValueError")
                 /\ UNCHANGED <<calls>>
            ELSE /\ pc' = cfg.mode
                 /\ UNCHANGED <<vs_ids, vs_scores, vs_docs, ds_docs, result, rerankIdx,
                                calls, returns>>
    /\ UNCHANGED <<cfg, store, vsAnswer, dsAnswer, llmYes, llmNo, setOrder, vsPc, dsPc>>
    /\ UNCHANGED <<rr, ix, pdf>>

\* The vector store answers the query: the remembered answer, or a new one.
VsAnswerIs(ids) ==
    IF vsAnswer = {} THEN ids \in VectorAnswers(TopKFirstRound(cfg)) ELSE ids \in vsAnswer

\* The document store answers the text query, with documents it holds.
DsAnswerIs(ids) ==
    IF dsAnswer = {}
    THEN ids \in {a \in TextAnswers(TopKFirstRound(cfg)) : Range(a) \cap store.missing = {}}
    ELSE ids \in dsAnswer

\* `calls` after one more call of each collaborator operation in `ops`.
Called(ops) == [k \in DOMAIN calls |-> IF k \in ops THEN calls[k] + 1 ELSE calls[k]]

\* Lines 318-390: vector mode.  The locals ids and scores are kept in
\* vs_ids and vs_scores.
VectorSearch ==
    /\ pc = "vector"
    /\ \/ /\ MayRaise
          /\ \E ops \in {{"embed"}, {"embed", "vs_query"}, {"embed", "vs_query", "ds_get"}} :
                /\ calls' = Called(ops)
                /\ \E probe \in IF ops = {"embed"} THEN {"none"}
                                 ELSE ProbeOutcomes(VectorProbes) :
                      /\ Swallowed(probe)
                      /\ probeRaised' = (probeRaised \/ probe # "none")
          /\ Raise("BackendError")
          /\ UNCHANGED <<vsAnswer>>
       \/ /\ \E probe \in ProbeOutcomes(VectorProbes) :
                /\ ~Swallowed(probe)
                /\ probeRaised' = TRUE
          /\ calls' = Called({"embed"})
          /\ Raise("DiagnosticError")
          /\ UNCHANGED <<vsAnswer>>
       \/ \E ids \in VectorAnswers(TopKFirstRound(cfg)) :
            /\ VsAnswerIs(ids)
            /\ vsAnswer' = {ids}
            /\ calls' = Called({"embed", "vs_query", "ds_get"})
            /\ vs_ids' = ids
            /\ vs_scores' = ScoresFor(ids)
            /\ result' = PairWithScores(DocStoreGet(store, ids), ScoresFor(ids))
            /\ pc' = "rerank"
            /\ \E probe \in ProbeOutcomes(VectorProbes) :
                  /\ Swallowed(probe)
                  /\ probeRaised' = (probeRaised \/ probe # "none")
            /\ UNCHANGED <<vs_docs, ds_docs, rerankIdx, returns>>
    /\ UNCHANGED <<cfg, store, dsAnswer, llmYes, llmNo, setOrder, vsPc, dsPc>>
    /\ UNCHANGED <<rr, ix, pdf>>

\* Lines 391-398: text mode.
TextSearch ==
    /\ pc = "text"
    /\ IF Truthy(cfg.scope)
       THEN \/ /\ MayRaise
               /\ calls' = Called({"ds_query"})
               /\ Raise("BackendError")
               /\ UNCHANGED <<dsAnswer>>
            \/ \E ids \in TextAnswers(TopKFirstRound(cfg)) :
                 /\ DsAnswerIs(ids)
                 /\ dsAnswer' = {ids}
                 /\ calls' = Called({"ds_query"})
                 /\ result' = SentinelDocs(DocStoreQuery(store, ids))
                 /\ pc' = "rerank"
                 /\ UNCHANGED <<vs_ids, vs_scores, vs_docs, ds_docs, rerankIdx, returns>>
       ELSE /\ result' = SentinelDocs(<<>>)
            /\ pc' = "rerank"
            /\ UNCHANGED <<dsAnswer, calls, vs_ids, vs_scores, vs_docs, ds_docs,
                           rerankIdx, returns>>
    /\ UNCHANGED <<cfg, store, vsAnswer, llmYes, llmNo, setOrder, vsPc, dsPc>>
    /\ UNCHANGED <<probeRaised, rr, ix, pdf>>

\* Lines 399-448: hybrid mode embeds the query and starts the two threads.
HybridStart ==
    /\ pc = "hybrid"
    /\ \/ /\ MayRaise
          /\ calls' = Called({"embed"})
          /\ Raise("BackendError")
          /\ UNCHANGED <<vsPc, dsPc, probeRaised>>
       \/ /\ \E probe \in ProbeOutcomes(HybridProbes) :
                /\ ~Swallowed(probe)
                /\ probeRaised' = TRUE
          /\ calls' = Called({"embed"})
          /\ Raise("DiagnosticError")
          /\ UNCHANGED <<vsPc, dsPc>>
       \/ /\ \E probe \in ProbeOutcomes(HybridProbes) :
                /\ Swallowed(probe)
                /\ probeRaised' = (probeRaised \/ probe # "none")
          /\ calls' = [Called({"embed"}) EXCEPT !.threads = 2]
          /\ pc' = "join"
          /\ vsPc' = "running" /\ dsPc' = "running"
          /\ UNCHANGED <<vs_ids, vs_scores, vs_docs, ds_docs, result, rerankIdx, returns>>
    /\ UNCHANGED <<cfg, store, vsAnswer, dsAnswer, llmYes, llmNo, setOrder>>
    /\ UNCHANGED <<rr, ix, pdf>>

\* Lines 411-429: query_vectorstore, the body of the vector-search thread.
\* An exception ends the thread; nothing carries it to the caller.
QueryVectorstore ==
    /\ vsPc = "running"
    /\ \E probe \in ProbeOutcomes(ThreadProbes) :
         /\ probeRaised' = (probeRaised \/ probe # "none")
         /\ IF ~Swallowed(probe)
            THEN /\ vsPc' = "died"
                 /\ UNCHANGED <<calls, vsAnswer, vs_ids, vs_scores, vs_docs>>
            ELSE \/ /\ MayRaise
                    /\ calls' = Called({"vs_query"})
                    /\ vsPc' = "died"
                    /\ UNCHANGED <<vsAnswer, vs_ids, vs_scores, vs_docs>>
                 \/ \E ids \in VectorAnswers(TopKFirstRound(cfg)) :
                      /\ VsAnswerIs(ids)
                      /\ vsAnswer' = {ids}
                      /\ vs_ids' = ids
                      /\ vs_scores' = ScoresFor(ids)
                      /\ IF ids = <<>>
                         THEN /\ calls' = Called({"vs_query"})
                              /\ vsPc' = "done"
                              /\ UNCHANGED vs_docs
                         ELSE /\ calls' = Called({"vs_query", "ds_get"})
                              /\ \/ /\ MayRaise
                                    /\ vsPc' = "died"
                                    /\ UNCHANGED vs_docs
                                 \/ /\ vs_docs' = DocStoreGet(store, ids)
                                    /\ vsPc' = "done"
    /\ UNCHANGED <<cfg, store, dsAnswer, llmYes, llmNo, setOrder, pc, dsPc, ds_docs,
                   result, rerankIdx, returns>>
    /\ UNCHANGED <<rr, ix, pdf>>

\* Lines 434-442: query_docstore, the body of the text-search thread.
QueryDocstore ==
    /\ dsPc = "running"
    /\ IF Truthy(cfg.scope)
       THEN /\ calls' = Called({"ds_query"})
            /\ \/ /\ MayRaise
                  /\ dsPc' = "died"
                  /\ UNCHANGED <<dsAnswer, ds_docs>>
               \/ \E ids \in TextAnswers(TopKFirstRound(cfg)) :
                    /\ DsAnswerIs(ids)
                    /\ dsAnswer' = {ids}
                    /\ ds_docs' = DocStoreQuery(store, ids)
                    /\ dsPc' = "done"
       ELSE /\ dsPc' = "done"
            /\ UNCHANGED <<calls, dsAnswer, ds_docs>>
    /\ UNCHANGED <<cfg, store, vsAnswer, llmYes, llmNo, setOrder, pc, vsPc, vs_ids,
                   vs_scores, vs_docs, result, rerankIdx, returns>>
    /\ UNCHANGED <<probeRaised, rr, ix, pdf>>

\* No wait for the threads.
JoinSkipped(t) == TRUE

\* A thread that join() returns for: it finished or an exception ended it.
Terminated(t) == t \in {"done", "died"}

\* Lines 450-461: join both threads, then merge their buffers.
JoinAndMerge ==
    /\ pc = "join"
    /\ Terminated(vsPc) /\ Terminated(dsPc)
    /\ result' = HybridMerge(ds_docs, vs_ids, vs_docs, vs_scores)
    /\ pc' = "rerank"
    /\ UNCHANGED <<cfg, store, vsAnswer, dsAnswer, llmYes, llmNo, setOrder, vsPc, dsPc,
                   vs_ids, vs_scores, vs_docs, ds_docs, rerankIdx, calls, returns>>
    /\ UNCHANGED <<probeRaised, rr, ix, pdf>>

\* The ids of a list of documents.
IdsOf(docs) == {docs[i].doc_id : i \in 1..Len(docs)}

\* Lines 466-471: one turn of the reranker loop (the query text is not empty).
ApplyReranker ==
    /\ pc = "rerank"
    /\ rerankIdx <= Len(cfg.rerankers)
    /\ \/ /\ MayRaise
          /\ Raise("RerankerError")
          /\ UNCHANGED <<llmYes, llmNo, calls>>
       \/ /\ IsLLMReranking(cfg.rerankers[rerankIdx])
          /\ LET input == RerankerInput(cfg.rerankers[rerankIdx], result, cfg.top_k)
                 fresh == IdsOf(input) \ (llmYes \cup llmNo)
             IN  \E yes \in SUBSET fresh :
                   /\ llmYes' = llmYes \cup yes
                   /\ llmNo' = llmNo \cup (fresh \ yes)
                   /\ result' = LLMRerankingRun(input, llmYes',
                                                 RerankerTopK(cfg.rerankers[rerankIdx]))
                   /\ calls' = [calls EXCEPT !.llm = @ + Len(input)]
          /\ rerankIdx' = rerankIdx + 1
          /\ UNCHANGED <<pc, vs_ids, vs_scores, vs_docs, ds_docs, returns>>
       \/ /\ ~IsLLMReranking(cfg.rerankers[rerankIdx])
          /\ result' = OtherRerankerRun(RerankerInput(cfg.rerankers[rerankIdx], result,
                                                      cfg.top_k))
          /\ rerankIdx' = rerankIdx + 1
          /\ UNCHANGED <<pc, vs_ids, vs_scores, vs_docs, ds_docs, returns, llmYes, llmNo, calls>>
    /\ UNCHANGED <<cfg, store, vsAnswer, dsAnswer, setOrder, vsPc, dsPc>>
    /\ UNCHANGED <<probeRaised, rr, ix, pdf>>

\* The thumbnail ids the partition loop collects from the truncated result.
CollectedIds == 
    LET top == FilterDocs(result, cfg.top_k)
    IN  Partition(top, Len(top), cfg.thumbnail_count).ids

\* The iteration orders the thumbnail-id set can show: the one already
\* observed in this process, else any (one, when the order cannot be seen).
SetOrders ==
    IF setOrder # {} THEN setOrder
    ELSE IF Cardinality(CollectedIds) >= 2 THEN {"asc", "desc"} ELSE {"asc"}

\* Lines 473-545: truncate, assemble the thumbnails, return.
Finish ==
    /\ pc = "rerank"
    /\ rerankIdx > Len(cfg.rerankers)
    /\ calls' = Called({"ds_get"})
    /\ \/ /\ MayRaise
          /\ Raise("BackendError")
          /\ UNCHANGED <<setOrder, store, probeRaised>>
       \/ \E order \in SetOrders, probe \in ProbeOutcomes(FinishProbes) :
            /\ probeRaised' = (probeRaised \/ probe # "none")
            /\ setOrder' = IF Cardinality(CollectedIds) >= 2 THEN {order} ELSE setOrder
            /\ LET out == Assemble(result, cfg, store, order)
               IN  /\ IF Swallowed(probe)
                      THEN Return("ok", out.docs, out.fallback)
                      ELSE Raise("DiagnosticError")
                   /\ store' = StoreAfterRelabel(store, out.relabelled)
    /\ UNCHANGED <<cfg, vsAnswer, dsAnswer, llmYes, llmNo, vsPc, dsPc>>
    /\ UNCHANGED <<rr, ix, pdf>>

\* The caller repeats the call with identical arguments, after a call in
\* which every collaborator answered.
CallAgain ==
    /\ pc = "done"
    /\ Len(returns) = 1
    /\ returns[1].status = "ok"
    /\ vsPc # "died" /\ dsPc # "died"
    /\ pc' = "start" /\ vsPc' = "idle" /\ dsPc' = "idle"
    /\ calls' = NoCalls
    /\ UNCHANGED <<cfg, store, vsAnswer, dsAnswer, llmYes, llmNo, setOrder,
                   vs_ids, vs_scores, vs_docs, ds_docs, result, rerankIdx, returns>>
    /\ UNCHANGED <<probeRaised, rr, ix, pdf>>

Next ==
    \/ Start
    \/ VectorSearch
    \/ TextSearch
    \/ HybridStart
    \/ QueryVectorstore
    \/ QueryDocstore
    \/ JoinAndMerge
    \/ ApplyReranker
    \/ Finish
    \/ CallAgain

Spec == Init /\ [][Next]_vars

\* ------------------------------------------------------------------ claims
\* The merged (or single-search) list is ready and no reranker has run.
PreRerank == pc = "rerank" /\ rerankIdx = 1

\* The outcome of the retrieve call that finished last.
LastReturn == returns[Len(returns)]

\* The documents of `docs` that carry a similarity score.
ScoredDocs(docs) == SelectSeq(docs, LAMBDA d : d.score # SentinelScore)

\* The position of id in the sequence ids (0 when absent).
IndexOf(ids, id) ==
    IF \E k \in 1..Len(ids) : ids[k] = id
    THEN CHOOSE k \in 1..Len(ids) : ids[k] = id
    ELSE 0

\* C1: in hybrid mode the merged pre-rerank list holds no doc_id twice; a
\* document found by both searches appears once, from the vector branch.
C1_NoDuplicateIds ==
    (cfg.mode = "hybrid" /\ PreRerank) =>
        \A i, j \in 1..Len(result) : i # j => result[i].doc_id # result[j].doc_id

\* C2: in vector mode and in the vector branch of hybrid mode every returned
\* document carries the score the vector store gave for its own doc_id, and
\* the documents are listed in the vector store's order, however the
\* document store orders (or shortens) the answer of its by-id get.
C2_ScoresFollowIds ==
    (cfg.mode \in {"vector", "hybrid"} /\ PreRerank) =>
        LET vec == ScoredDocs(result)
        IN  /\ \A i \in 1..Len(vec) :
                  /\ IndexOf(vs_ids, vec[i].doc_id) # 0
                  /\ vec[i].score = vs_scores[IndexOf(vs_ids, vec[i].doc_id)]
            /\ \A i, j \in 1..Len(vec) :
                  i < j => IndexOf(vs_ids, vec[i].doc_id) < IndexOf(vs_ids, vec[j].doc_id)

\* C3: in hybrid mode, when a search raises inside its thread, the retrieve
\* call fails with that error once both threads are joined; it never returns
\* a result as if the failed search had found nothing.
C3_ThreadErrorPropagates ==
    (pc = "done" /\ (vsPc = "died" \/ dsPc = "died")) => LastReturn.status # "ok"

\* C4: a retrieve call with positive top_k = K and non-negative
\* thumbnail_count returns at most K documents, and at most thumbnail_count
\* documents when it returns the raw-thumbnail fallback.
C4_LengthBounded ==
    \A n \in 1..Len(returns) :
        returns[n].status = "ok" =>
            /\ Len(returns[n].docs) <= cfg.top_k
            /\ returns[n].fallback => Len(returns[n].docs) <= cfg.thumbnail_count

\* The list the merge policy asks for: the text hits whose id is no vector
\* hit id, in text order with the sentinel score, then every fetched vector
\* hit in vector-store order with its own score.
StatedMerge ==
    LET textOnly == SelectSeq(ds_docs, LAMBDA d : d.doc_id \notin Range(vs_ids))
        fetched  == SelectSeq(vs_ids, LAMBDA x : x \in IdsOf(vs_docs))
    IN  [i \in 1..Len(textOnly) |-> RetrievedDocument(textOnly[i], SentinelScore)]
        \o [i \in 1..Len(fetched) |->
               RetrievedDocument(StoredDocument(store, fetched[i]),
                                 vs_scores[IndexOf(vs_ids, fetched[i])])]

\* C7: in hybrid mode the pre-rerank list is the text-only hits in text
\* order, each scored -1.0, followed by every vector hit in vector-store
\* order with its own score.
C7_MergeOrder ==
    (cfg.mode = "hybrid" /\ PreRerank /\ vsPc = "done" /\ dsPc = "done") =>
        result = StatedMerge

\* C8: a second retrieve call with identical arguments against deterministic
\* collaborators returns the same ordered list as the first.
C8_Idempotent == Len(returns) = 2 => returns[2] = returns[1]

\* C8 witness: both calls returned, the first relabelled a raw thumbnail and
\* looked up two thumbnail ids in one batch.
C8_Witness ==
    /\ Len(returns) = 2
    /\ setOrder # {}
    /\ \E i \in 1..Len(returns[1].docs) :
          MetaGet(returns[1].docs[i].metadata, "type") = "image"

\* C9: the full-text query is issued only for a non-empty scope: with an
\* absent or empty scope text mode returns an empty list without raising,
\* and hybrid mode yields no sentinel-scored document.
C9_TextQueryNeedsScope ==
    (cfg.scope \in {"none", "empty"}) =>
        /\ calls.ds_query = 0
        /\ dsAnswer = {}
        /\ (cfg.mode = "text" /\ cfg.has_doc_store /\ pc = "done"
              /\ LastReturn.status \notin {"BackendError", "RerankerError"})
             => (LastReturn.status = "ok" /\ LastReturn.docs = <<>>)
        /\ (cfg.mode = "hybrid") =>
              /\ \A i \in 1..Len(result) : result[i].score # SentinelScore
              /\ \A n \in 1..Len(returns) : \A i \in 1..Len(returns[n].docs) :
                    returns[n].docs[i].score # SentinelScore

\* C9 witness: a text-mode call with an empty scope has returned normally,
\* with a reranker configured.
C9_Witness ==
    /\ pc = "done"
    /\ cfg.mode = "text" /\ cfg.scope = "empty" /\ cfg.rerankers # <<>>
    /\ LastReturn.status = "ok"

\* C10: without a document store retrieve fails with a configuration error
\* in every mode, before the embedder is invoked, before any vector-store
\* query and before any search thread is started.
C10_ConfigErrorFirst ==
    (~cfg.has_doc_store) =>
        /\ calls = NoCalls
        /\ vsPc = "idle" /\ dsPc = "idle"
        /\ pc \in {"start", "done"}
        /\ pc = "done" => (Len(returns) = 1 /\ returns[1].status = "ValueError")

\* C10 witness: a call without a document store has ended.
C10_Witness == ~cfg.has_doc_store /\ pc = "done"

\* ------------------------------------------- LLMReranking.run on its own
\* The documents handed to the filter: document i is the i-th of the list.
RrDocuments == [i \in 1..rr.n |-> i]

\* The runs of the filter: n documents, the outcome of the model call made
\* for each, the concurrent flag, the top_k setting.
RrRuns ==
    {[pc |-> "run", n |-> n, answers |-> a, concurrent |-> c, top_k |-> k,
      submitted |-> 0, futures |-> [i \in 1..n |-> "none"], completed |-> <<>>,
      results |-> <<>>, out |-> [status |-> "none", docs |-> <<>>]] :
        n \in 0..MaxDocs, a \in UNION {[1..m -> LlmOutcomes] : m \in 0..MaxDocs},
        c \in BOOLEAN, k \in 1..MaxDocs}

InitRerank ==
    /\ rr \in {r \in RrRuns : Len(r.answers) = r.n}
    /\ ix = IxOff
    /\ pdf = PdfOff
    /\ cfg = [mode |-> "vector", top_k |-> 1, thumbnail_count |-> 0, scope |-> "none",
              do_extend |-> FALSE, rerankers |-> <<>>, has_doc_store |-> FALSE]
    /\ store = [order |-> "request", missing |-> {}, image |-> {}]
    /\ vsAnswer = {} /\ dsAnswer = {} /\ llmYes = {} /\ llmNo = {} /\ setOrder = {}
    /\ pc = "off" /\ vsPc = "idle" /\ dsPc = "idle"
    /\ vs_ids = <<>> /\ vs_scores = <<>> /\ vs_docs = <<>> /\ ds_docs = <<>>
    /\ result = <<>> /\ rerankIdx = 1
    /\ calls = NoCalls
    /\ returns = <<>>
    /\ probeRaised = FALSE

retrievalVars == <<cfg, store, vsAnswer, dsAnswer, llmYes, llmNo, setOrder, pc, vsPc,
                   dsPc, vs_ids, vs_scores, vs_docs, ds_docs, result, rerankIdx, calls,
                   returns, probeRaised>>

\* Lines 51-55: the next document's prompt is submitted to the executor.
RrSubmit ==
    /\ rr.pc = "run" /\ rr.concurrent
    /\ rr.submitted < rr.n
    /\ rr' = [rr EXCEPT !.submitted = @ + 1, !.futures[rr.submitted + 1] = "running"]
    /\ UNCHANGED <<retrievalVars, ix, pdf>>

\* Lines 40-46: a submitted model call completes, in any order.
RrComplete ==
    /\ rr.pc = "run" /\ rr.concurrent
    /\ \E i \in 1..rr.n :
         /\ rr.futures[i] = "running"
         /\ rr' = [rr EXCEPT !.futures[i] = rr.answers[i], !.completed = Append(@, i)]
    /\ UNCHANGED <<retrievalVars, ix, pdf>>

\* Line 57: every future has its result; the results are gathered.
RrCollect ==
    /\ rr.pc = "run" /\ rr.concurrent
    /\ rr.submitted = rr.n
    /\ \A i \in 1..rr.n : rr.futures[i] \notin {"none", "running"}
    /\ rr' = [rr EXCEPT !.results = GatherResults(rr.futures, rr.completed),
                        !.pc = "parse"]
    /\ UNCHANGED <<retrievalVars, ix, pdf>>

\* The sequential loop taking a failed model call for a NO and going on.
RrInvokeSwallows ==
    /\ rr.pc = "run" /\ ~rr.concurrent
    /\ Len(rr.results) < rr.n
    /\ LET r == rr.answers[Len(rr.results) + 1]
       IN  rr' = [rr EXCEPT !.results = Append(@, IF r = "<raises>" THEN "NO" ELSE r),
                            !.pc = IF Len(rr.results) + 1 = rr.n THEN "parse" ELSE "run"]
    /\ UNCHANGED <<retrievalVars, ix, pdf>>

\* Lines 59-64: the sequential loop calls the model for the next document;
\* an exception of the call ends the run.
RrInvoke ==
    /\ rr.pc = "run" /\ ~rr.concurrent
    /\ Len(rr.results) < rr.n
    /\ LET r == rr.answers[Len(rr.results) + 1]
       IN  rr' = [rr EXCEPT !.results = Append(@, r),
                            !.pc = IF r = "<raises>" \/ Len(rr.results) + 1 = rr.n
                                   THEN "parse" ELSE "run"]
    /\ UNCHANGED <<retrievalVars, ix, pdf>>

\* Lines 66-76: parse the responses, filter, fall back to the first top_k.
RrFinish ==
    /\ \/ rr.pc = "parse"
       \/ rr.pc = "run" /\ ~rr.concurrent /\ rr.n = 0
    /\ rr' = [rr EXCEPT !.out = ParseAndSelect(RrDocuments, rr.results, rr.top_k),
                        !.pc = "done"]
    /\ UNCHANGED <<retrievalVars, ix, pdf>>

NextRerank ==
    \/ RrSubmit
    \/ RrComplete
    \/ RrCollect
    \/ RrInvoke
    \/ RrFinish

SpecRerank == InitRerank /\ [][NextRerank]_vars

\* The judgment the model gives for the i-th document's own prompt.
OwnJudgment(i) == ParseBoolean(rr.answers[i])

\* The documents judged relevant by their own prompt's response, in input order.
RelevantInOrder == SelectSeq(RrDocuments, LAMBDA i : OwnJudgment(i) = "true")

\* C5: when no document is judged relevant the filter returns the first
\* top_k documents of its input, in input order, and that is not empty
\* unless the input is.
C5_FallbackFirstTopK ==
    (rr.pc = "done" /\ rr.out.status = "ok"
       /\ \A i \in 1..rr.n : OwnJudgment(i) = "false") =>
        /\ rr.out.docs = SubSeq(RrDocuments, 1, Min(rr.top_k, rr.n))
        /\ rr.n > 0 => rr.out.docs # <<>>

\* C5 witness: a run over more documents than top_k, all judged NO, is over.
C5_Witness ==
    /\ rr.pc = "done" /\ rr.out.status = "ok"
    /\ rr.n > rr.top_k
    /\ \A i \in 1..rr.n : OwnJudgment(i) = "false"

\* C6: in concurrent mode, whatever the order in which the model calls
\* complete, the i-th judgment is the one made for the i-th document, and
\* the output is the documents judged relevant, in input order.
C6_JudgmentsKeepOrder ==
    (rr.pc = "done" /\ rr.concurrent) =>
        /\ rr.results = rr.answers
        /\ (rr.out.status = "ok" /\ RelevantInOrder # <<>>) => rr.out.docs = RelevantInOrder

\* C6 witness: a concurrent run whose calls completed out of submission
\* order has kept some documents and dropped others.
C6_Witness ==
    /\ rr.pc = "done" /\ rr.concurrent /\ rr.out.status = "ok"
    /\ \E k \in 1..Len(rr.completed) : rr.completed[k] # k
    /\ RelevantInOrder # <<>> /\ Len(RelevantInOrder) < rr.n

\* ------------------------------------------- claims on the reranker loop
\* The reranker-loop turn of a call whose only reranker is an LLMReranking:
\* `result` is the first-round list, result' what the reranker returned.
OnlyLLMRerankerRuns ==
    /\ pc = "rerank" /\ pc' = "rerank"
    /\ rerankIdx = 1 /\ rerankIdx' = 2
    /\ Len(cfg.rerankers) = 1 /\ IsLLMReranking(cfg.rerankers[1])

\* Every one of the first top_k first-round candidates is judged not relevant.
FirstKRejected == IdsOf(FilterDocs(result, cfg.top_k)) \subseteq llmNo'

\* C11 as stated: with the LLM-relevance filter as only reranker and every
\* one of the first K first-round candidates judged not relevant, the list
\* after reranking and final truncation is those K candidates in their
\* original order, and is not empty.
C11_AllRejectedKeepsFirstK ==
    [][(OnlyLLMRerankerRuns /\ result # <<>> /\ FirstKRejected) =>
          /\ FilterDocs(result', cfg.top_k) = FilterDocs(result, cfg.top_k)
          /\ FilterDocs(result', cfg.top_k) # <<>>]_vars

\* C11 amended: the list after reranking and final truncation is the first
\* min(K, reranker top_k) first-round candidates in their original order;
\* it is the first K candidates themselves when K does not exceed the
\* reranker's own top_k (3 by default), and it is not empty when the first
\* round found a candidate.
C11_AllRejectedKeepsFirstMin ==
    [][(OnlyLLMRerankerRuns /\ FirstKRejected) =>
          /\ FilterDocs(result', cfg.top_k)
               = Take(result, Min(cfg.top_k, RerankerTopK(cfg.rerankers[1])))
          /\ cfg.top_k <= RerankerTopK(cfg.rerankers[1])
               => FilterDocs(result', cfg.top_k) = FilterDocs(result, cfg.top_k)
          /\ result # <<>> => FilterDocs(result', cfg.top_k) # <<>>]_vars

\* C11 witness: the only reranker, an LLMReranking, has rejected both of the
\* top_k = 2 candidates and handed both back.
C11_Witness ==
    /\ pc = "rerank" /\ rerankIdx = 2
    /\ Len(cfg.rerankers) = 1 /\ IsLLMReranking(cfg.rerankers[1])
    /\ cfg.top_k = 2 /\ Len(result) = 2
    /\ llmYes = {} /\ IdsOf(result) \subseteq llmNo

\* ------------------------------------------ claims on thumbnail assembly
\* The step in which a retrieve call returns normally: `result` is the list
\* after the reranker loop, LastReturn' the outcome of the call.
ReturnsNormally == pc = "rerank" /\ pc' = "done" /\ LastReturn'.status = "ok"

\* The truncated top-k list the thumbnail assembly starts from.
TopK == FilterDocs(result, cfg.top_k)

\* The thumbnail ids the batched by-id lookup resolves to a document.
ResolvedThumbnails == CollectedIds \ store.missing

\* doc is a text document of the top-k that references thumbnail t.
References(doc, t) ==
    /\ MetaGet(doc.metadata, "type") # "thumbnail"
    /\ MetaGet(doc.metadata, "thumbnail_doc_id") = t

\* e is the entry for thumbnail t made from the text document d: the text
\* document's id, content and score, type "image", the thumbnail's metadata,
\* and the text document's keys the thumbnail does not have.
IsSynthesizedFrom(e, t, d) ==
    LET tm == StoredDocument(store, t).metadata
    IN  /\ e.doc_id = d.doc_id /\ e.content = d.content /\ e.score = d.score
        /\ DOMAIN e.metadata = DOMAIN tm \cup DOMAIN d.metadata
        /\ e.metadata["type"] = "image"
        /\ \A k \in DOMAIN tm \ {"type"} : e.metadata[k] = tm[k]
        /\ \A k \in DOMAIN d.metadata \ DOMAIN tm : e.metadata[k] = d.metadata[k]

\* The positions of docs that show the image of thumbnail t.
EntriesShowing(docs, t) ==
    {i \in 1..Len(docs) :
        MetaGet(docs[i].metadata, "image_origin") = MetadataOf(t).image_origin}

AllResponded == \A i \in 1..rr.n : rr.answers[i] # "<raises>"

\* Some response of the run is not a boolean.
SomeUnparseable ==
    \E i \in 1..rr.n : rr.answers[i] # "<raises>" /\ OwnJudgment(i) = "error"

\* C14: when the response for any one document cannot be parsed as a
\* boolean the whole filter call fails with the parse error: no list is
\* returned, neither the documents other responses judged relevant nor the
\* first top_k of the fallback.
C14_ParseErrorFailsCall ==
    (rr.pc = "done" /\ AllResponded /\ SomeUnparseable) =>
        /\ rr.out.status = "ParseError"
        /\ rr.out.docs = <<>>

\* C14 witness: a run in which one response is not a boolean and another
\* is a YES is over.
C14_Witness ==
    /\ rr.pc = "done" /\ AllResponded /\ SomeUnparseable
    /\ \E i \in 1..rr.n : OwnJudgment(i) = "true"

\* ------------------------------------ claims on the reranker loop, continued
\* A turn of the reranker loop in which the reranker returns: `result` is
\* the working list before it, result' the list it returned.
RerankerTurn == pc = "rerank" /\ pc' = "rerank" /\ rerankIdx' = rerankIdx + 1

\* C15: for positive top_k = K, with or without extend, an LLM-relevance
\* reranker is run on at most K documents, the first K of the working list,
\* and makes one model call for each of them, so at most K calls; any other
\* reranker is run on the whole working list.
C15_LLMCallsBounded ==
    [][RerankerTurn =>
          IF IsLLMReranking(cfg.rerankers[rerankIdx])
          THEN /\ calls'.llm - calls.llm = Min(Len(result), cfg.top_k)
               /\ calls'.llm - calls.llm <= cfg.top_k
               /\ IdsOf(result') \subseteq IdsOf(Take(result, cfg.top_k))
               /\ (llmYes' \cup llmNo') \ (llmYes \cup llmNo) \subseteq IdsOf(Take(result, cfg.top_k))
          ELSE /\ calls'.llm = calls.llm
               /\ result' = OtherRerankerRun(result)]_vars

\* C15 witness: with extend set, an LLM-relevance reranker has run on a
\* working list longer than top_k and made top_k model calls, after a
\* reranker of another kind ran on the whole list.
C15_Witness ==
    /\ pc = "rerank" /\ rerankIdx = 3
    /\ cfg.do_extend /\ cfg.rerankers = <<"other", "llm">>
    /\ Len(vs_docs) + Len(ds_docs) > cfg.top_k
    /\ calls.llm = cfg.top_k

\* ----------------------------------- claims on thumbnail assembly, continued
\* The raw thumbnail documents of the top-k, in their order, type "image".
RawThumbnails ==
    LET raw == SelectSeq(TopK, LAMBDA d : MetaGet(d.metadata, "type") = "thumbnail")
    IN  [i \in 1..Len(raw) |-> [raw[i] EXCEPT !.metadata = SetKey(@, "type", "image")]]

\* The unchanged documents: the top-k documents the partition loop neither
\* set aside as raw thumbnails nor remembered for a referenced thumbnail.
UnchangedDocs == Partition(TopK, Len(TopK), cfg.thumbnail_count).non

\* C16: the final result is the synthesized thumbnail entries followed by
\* the unchanged documents; raw thumbnail documents are returned only when
\* there is neither, and then the result is the first thumbnail_count raw
\* thumbnails of the top-k in their order, each relabelled to type "image".
C16_ResultLayout ==
    [][ReturnsNormally =>
          LET out  == LastReturn'.docs
              nSyn == Cardinality(ResolvedThumbnails)
          IN  IF nSyn + Len(UnchangedDocs) > 0
              THEN /\ Len(out) = nSyn + Len(UnchangedDocs)
                   /\ \A i \in 1..nSyn :
                         \E t \in ResolvedThumbnails : i \in EntriesShowing(out, t)
                   /\ SubSeq(out, nSyn + 1, Len(out)) = UnchangedDocs
                   /\ \A i \in 1..Len(out) : out[i].doc_id \notin IdsOf(RawThumbnails)
              ELSE out = SubSeq(RawThumbnails, 1, Min(cfg.thumbnail_count, Len(RawThumbnails)))]_vars

\* ------------------------------------------------ claims on hybrid mode
\* What the vector search contributes to the merged list, from the vector
\* store's answer alone: nothing unless its thread ran to its end.
VectorBranch ==
    IF vsPc = "done" /\ vsAnswer # {}
    THEN LET ids == CHOOSE x \in vsAnswer : TRUE
         IN  PairWithScores(DocStoreGet(store, ids), ScoresFor(ids))
    ELSE <<>>

\* What the text search contributes, from the document store's answer alone.
TextBranch ==
    IF dsPc = "done" /\ Truthy(cfg.scope) /\ dsAnswer # {}
    THEN LET ids == CHOOSE x \in dsAnswer : TRUE
         IN  SentinelDocs(DocStoreQuery(store, ids))
    ELSE <<>>

\* C17: in hybrid mode the two searches run on separate threads that write
\* disjoint buffers, and the merge reads them only after both threads have
\* terminated: while a search is running the call waits at the join with
\* an empty working list (no merge, rerank or thumbnail step has happened),
\* a thread's step leaves the other thread's buffers alone, and the merged
\* list is a function of the two searches' answers, whichever ended first.
C17_MergeAfterJoin ==
    [][/\ (vsPc' = "running" \/ dsPc' = "running") =>
              (pc' = "join" /\ result' = <<>> /\ rerankIdx' = 1)
       /\ (vsPc = "running" /\ vsPc' # "running") =>
              (ds_docs' = ds_docs /\ dsPc' = dsPc)
       /\ (dsPc = "running" /\ dsPc' # "running") =>
              (vs_ids' = vs_ids /\ vs_scores' = vs_scores /\ vs_docs' = vs_docs
                 /\ vsPc' = vsPc)
       /\ (pc = "join" /\ pc' = "rerank") =>
              (result' = TextBranch' \o VectorBranch')]_vars

\* C17 witness: both searches found documents, both threads have ended and
\* the merged list is ready.
C17_Witness ==
    /\ cfg.mode = "hybrid" /\ PreRerank
    /\ vsPc = "done" /\ dsPc = "done"
    /\ vs_docs # <<>> /\ ds_docs # <<>>
    /\ Len(result) = Len(vs_docs) + Len(ds_docs)

\* C18: thumbnail assembly loses no text document: every document of the
\* truncated top-k whose type is not "thumbnail" is in the final result
\* under its own doc_id, unchanged or as a synthesized thumbnail entry,
\* also when two top-k documents reference the same thumbnail and when the
\* document store holds no document for a referenced thumbnail id.
C18_NoTextDocumentLost ==
    [][ReturnsNormally =>
          \A j \in 1..Len(TopK) :
              MetaGet(TopK[j].metadata, "type") # "thumbnail"
                  => TopK[j].doc_id \in IdsOf(LastReturn'.docs)]_vars

\* What a run of the filter has to produce, from the documents, the
\* responses and top_k alone: the error of a failed model call, else the
\* parser's error, else the documents judged relevant or, when there is
\* none, the first top_k documents.
OutcomeOfResponses ==
    IF ~AllResponded THEN [status |-> "BackendError", docs |-> <<>>]
    ELSE IF SomeUnparseable THEN [status |-> "ParseError", docs |-> <<>>]
    ELSE IF RelevantInOrder # <<>> THEN [status |-> "ok", docs |-> RelevantInOrder]
    ELSE [status |-> "ok", docs |-> SubSeq(RrDocuments, 1, Min(rr.top_k, rr.n))]

\* C19: for every document list and assignment of responses to documents
\* the filter returns the same output, or fails with the same kind of
\* error, with the concurrent flag set and unset.
C19_ConcurrentFlagEquivalent ==
    rr.pc = "done" => rr.out = OutcomeOfResponses

\* C19 witness: a sequential run that kept some documents and dropped
\* others is over.
C19_Witness ==
    /\ rr.pc = "done" /\ ~rr.concurrent /\ rr.out.status = "ok"
    /\ RelevantInOrder # <<>> /\ Len(rr.out.docs) < rr.n

\* ------------------------------------------------------- VectorIndexing
\* The doc_ids of the Document objects a caller can hand to an ingestion run.
GivenIds == {1, 2}

\* The id uuid.uuid4() gives the k-th text item: an id no document has yet.
Uuid(k) == Cardinality(GivenIds) + k

\* The items of a batch: a Document with its doc_id, a str, or an object
\* that is neither.
IngestItems ==
    {[kind |-> "doc", id |-> d] : d \in GivenIds} \cup {[kind |-> "str"], [kind |-> "other"]}

\* The batches: `text` as a list (a single item is wrapped into one).
Batches == UNION {[1..n -> IngestItems] : n \in 0..MaxBatch}

\* Lines 100-112 of VectorIndexing.run: the loop that builds input_ from
\* the first i items; `uuids` counts the ids generated so far.
RECURSIVE BuildInput(_, _, _)
BuildInput(batch, i, uuids) ==
    IF i = 0 THEN [status |-> "ok", input |-> <<>>, uuids |-> uuids]
    ELSE LET before == BuildInput(batch, i - 1, uuids)
         IN  IF before.status # "ok" THEN before
             ELSE IF batch[i].kind = "str"
             THEN [before EXCEPT !.input = Append(@, Uuid(before.uuids + 1)),
                                 !.uuids = @ + 1]
             ELSE IF batch[i].kind = "doc"
             THEN [before EXCEPT !.input = Append(@, batch[i].id)]
             ELSE [before EXCEPT !.status = "ValueError"]

\* A VectorIndexing component with both stores configured and empty,
\* count_ = 0, no run made yet.
IxNew ==
    [pc |-> "idle", vs |-> {}, ds |-> {}, count_ |-> 0, uuids |-> 0, runs |-> 0,
     input |-> <<>>, last |-> "none"]

InitIngest ==
    /\ ix = IxNew
    /\ rr = RrIdle
    /\ pdf = PdfOff
    /\ cfg = [mode |-> "vector", top_k |-> 1, thumbnail_count |-> 0, scope |-> "none",
              do_extend |-> FALSE, rerankers |-> <<>>, has_doc_store |-> FALSE]
    /\ store = [order |-> "request", missing |-> {}, image |-> {}]
    /\ vsAnswer = {} /\ dsAnswer = {} /\ llmYes = {} /\ llmNo = {} /\ setOrder = {}
    /\ pc = "off" /\ vsPc = "idle" /\ dsPc = "idle"
    /\ vs_ids = <<>> /\ vs_scores = <<>> /\ vs_docs = <<>> /\ ds_docs = <<>>
    /\ result = <<>> /\ rerankIdx = 1
    /\ calls = NoCalls
    /\ returns = <<>>
    /\ probeRaised = FALSE

\* The run ends with an exception: its locals are gone.
IxRaise(status) == ix' = [ix EXCEPT !.pc = "idle", !.input = <<>>, !.last = status]

\* Lines 99-112: a run starts and builds input_; an item that is neither a
\* str nor a Document raises ValueError before anything is stored.
IxStart ==
    /\ ix.pc = "idle"
    /\ ix.runs < MaxRuns
    /\ \E batch \in Batches :
         LET built == BuildInput(batch, Len(batch), ix.uuids)
         IN  IF built.status = "ok"
             THEN ix' = [ix EXCEPT !.pc = "vs", !.input = built.input,
                                   !.uuids = built.uuids, !.runs = @ + 1]
             ELSE ix' = [ix EXCEPT !.uuids = built.uuids, !.runs = @ + 1,
                                   !.last = built.status]
    /\ UNCHANGED <<retrievalVars, rr, pdf>>

\* Lines 88-97: add_to_vectorstore embeds the batch, then adds embeddings
\* and ids to the vector store; either call may raise.
IxAddToVectorstore ==
    /\ ix.pc = "vs"
    /\ \/ IxRaise("EmbeddingError")
       \/ IxRaise("VectorStoreError")
       \/ ix' = [ix EXCEPT !.vs = @ \cup Range(ix.input), !.pc = "ds"]
    /\ UNCHANGED <<retrievalVars, rr, pdf>>

\* Lines 83-86: add_to_docstore adds the batch to the document store.
IxAddToDocstore ==
    /\ ix.pc = "ds"
    /\ \/ IxRaise("DocStoreError")
       \/ ix' = [ix EXCEPT !.ds = @ \cup Range(ix.input), !.pc = "write"]
    /\ UNCHANGED <<retrievalVars, rr, pdf>>

\* Lines 116-117: the chunks are written to the cache directory (which may
\* raise), then count_ grows by the size of the batch.
IxFinish ==
    /\ ix.pc = "write"
    /\ \/ IxRaise("OSError")
       \/ ix' = [ix EXCEPT !.count_ = @ + Len(ix.input), !.pc = "idle",
                           !.input = <<>>, !.last = "ok"]
    /\ UNCHANGED <<retrievalVars, rr, pdf>>

NextIngest ==
    \/ IxStart
    \/ IxAddToVectorstore
    \/ IxAddToDocstore
    \/ IxFinish

SpecIngest == InitIngest /\ [][NextIngest]_vars

\* No ingestion run is under way.
IxBetweenRuns == ix.pc = "idle"

\* The step that ends an ingestion run which had built its input.
IxRunEnds == ix.pc \in {"vs", "ds", "write"} /\ ix'.pc = "idle"

\* The ingestion counter never decreases and grows by the batch size
\* exactly on the runs that complete.
IxCounterMonotone ==
    [][/\ ix'.count_ >= ix.count_
       /\ IxRunEnds =>
             ix'.count_ = IF ix'.last = "ok" THEN ix.count_ + Len(ix.input) ELSE ix.count_
       /\ ~IxRunEnds => ix'.count_ = ix.count_]_vars

\* C20: with both stores configured, after any sequence of ingestion runs,
\* runs that raise included, every doc_id in the vector store is in the
\* document store too, and the ingestion counter never decreases and grows
\* by the batch size exactly on each run that completes.
C20_StoresConsistent ==
    /\ [][IxBetweenRuns' => ix'.vs \subseteq ix'.ds]_vars
    /\ IxCounterMonotone

\* ---------------------------------------------------- PDFThumbnailReader
\* Page labels a PDF can give its pages: a roman-numbered front page, and
\* arabic numbers.
PageLabels == {"i", "1", "2"}

\* int(page_num_str) succeeds.
IsIntLabel(label) == label \in {"1", "2"}

\* A page of the PDF: its label, whether it holds enough vector drawings
\* to be described as a diagram (more than 100), and its embedded images,
\* each large enough to be described (no soft mask, 200 pixels or more
\* each way) or not.
Pages ==
    [label : PageLabels, diagram : BOOLEAN,
     images : UNION {[1..k -> BOOLEAN] : k \in 0..MaxImages}]

\* The PDF files: page p of the model is physical page index p - 1.
Pdfs == UNION {[1..n -> Pages] : n \in 0..MaxPages}

\* A piece of a document's text: the text of a page, or the description of
\* the diagram or of the index-th image of a page (empty when the vision
\* reader failed).
Piece(kind, page, index, described) ==
    [kind |-> kind, page |-> page, index |-> index, described |-> described]

\* A document of the loader's output; image_origin is the page a thumbnail
\* was rendered from (0: no image).
PdfDocument(type, label, parts, origin, flagged) ==
    [type |-> type, page_label |-> label, parts |-> parts, image_origin |-> origin,
     has_page_thumbnail |-> flagged, num_images |-> 0]

\* PDFReader.load_data: one document per page, in page order, with the
\* page's label and text.
ReaderDocuments(file) ==
    [p \in 1..Len(file) |->
        PdfDocument("text", file[p].label, <<Piece("text", p, 0, TRUE)>>, 0, FALSE)]

\* Lines 140-156 and 184-205: the description goes to documents[idx] when
\* idx is within the list, else into a new document appended to it.
WithDescription(documents, p, piece, labels) ==
    IF p <= Len(documents)
    THEN [documents EXCEPT ![p].parts = Append(@, piece),
                           ![p].has_page_thumbnail = TRUE,
                           ![p].num_images = IF piece.kind = "image" THEN @ + 1 ELSE @]
    ELSE Append(documents,
                PdfDocument(IF piece.kind = "image" THEN "image" ELSE "page_diagram",
                            labels[p], <<piece>>, 0, TRUE))

\* The descriptions made for page p, in the order the loop makes them: the
\* diagram, then each image that is large enough.
DescriptionsOf(file, p) ==
    (IF file[p].diagram THEN <<[kind |-> "diagram", index |-> 0]>> ELSE <<>>)
    \o SelectSeq([k \in 1..Len(file[p].images) |-> [kind |-> "image", index |-> k]],
                 LAMBDA d : file[p].images[d.index])

\* One turn of the page loop: the first i descriptions of page p applied.
RECURSIVE AfterDescriptions(_, _, _, _, _, _)
AfterDescriptions(documents, p, todo, i, described, labels) ==
    IF i = 0 THEN documents
    ELSE WithDescription(AfterDescriptions(documents, p, todo, i - 1, described, labels),
                         p,
                         Piece(todo[i].kind, p, todo[i].index, described[i]),
                         labels)

\* Lines 206-222: one thumbnail document per page with an integer label,
\* from zip(page_thumbnails, page_numbers_str).
ThumbnailDocuments(labels) ==
    LET kept == SelectSeq([p \in 1..Len(labels) |-> p], LAMBDA p : IsIntLabel(labels[p]))
    IN  [k \in 1..Len(kept) |->
            PdfDocument("thumbnail", labels[kept[k]], <<>>, kept[k], FALSE)]

InitPdf ==
    /\ \E file \in Pdfs :
         pdf = [pc |-> "filter", file |-> file, documents |-> ReaderDocuments(file),
                page_numbers_str |-> <<>>, idx |-> 1]
    /\ rr = RrIdle
    /\ ix = IxOff
    /\ cfg = [mode |-> "vector", top_k |-> 1, thumbnail_count |-> 0, scope |-> "none",
              do_extend |-> FALSE, rerankers |-> <<>>, has_doc_store |-> FALSE]
    /\ store = [order |-> "request", missing |-> {}, image |-> {}]
    /\ vsAnswer = {} /\ dsAnswer = {} /\ llmYes = {} /\ llmNo = {} /\ setOrder = {}
    /\ pc = "off" /\ vsPc = "idle" /\ dsPc = "idle"
    /\ vs_ids = <<>> /\ vs_scores = <<>> /\ vs_docs = <<>> /\ ds_docs = <<>>
    /\ result = <<>> /\ rerankIdx = 1
    /\ calls = NoCalls
    /\ returns = <<>>
    /\ probeRaised = FALSE

\* Lines 81-98: every label is recorded, the documents with a label that
\* is not an integer are dropped.
PdfFilter ==
    /\ pdf.pc = "filter"
    /\ pdf' = [pdf EXCEPT
                 !.page_numbers_str = [p \in 1..Len(pdf.documents) |->
                                          pdf.documents[p].page_label],
                 !.documents = SelectSeq(pdf.documents,
                                         LAMBDA d : IsIntLabel(d.page_label)),
                 !.pc = "page"]
    /\ UNCHANGED <<retrievalVars, rr, ix>>

\* Lines 117-205: one turn of the loop over the physical pages; each call
\* of the vision reader gives a description or fails.
PdfPage ==
    /\ pdf.pc = "page"
    /\ pdf.idx <= Len(pdf.page_numbers_str)
    /\ LET todo == DescriptionsOf(pdf.file, pdf.idx)
       IN  \E described \in [1..Len(todo) -> BOOLEAN] :
             pdf' = [pdf EXCEPT
                       !.documents = AfterDescriptions(pdf.documents, pdf.idx, todo,
                                                       Len(todo), described,
                                                       pdf.page_numbers_str),
                       !.idx = @ + 1]
    /\ UNCHANGED <<retrievalVars, rr, ix>>

\* Lines 206-225: the loop is over; the thumbnail documents are appended
\* and the list is returned.
PdfThumbnails ==
    /\ pdf.pc = "page"
    /\ pdf.idx > Len(pdf.page_numbers_str)
    /\ pdf' = [pdf EXCEPT
                 !.documents = @ \o ThumbnailDocuments(pdf.page_numbers_str),
                 !.pc = "done"]
    /\ UNCHANGED <<retrievalVars, rr, ix>>

NextPdf ==
    \/ PdfFilter
    \/ PdfPage
    \/ PdfThumbnails

SpecPdf == InitPdf /\ [][NextPdf]_vars

\* The document list holds the text document of page p.
HasTextDocument(p) ==
    \E i \in 1..Len(pdf.documents) :
        pdf.documents[i].type = "text" /\ pdf.documents[i].parts[1].page = p

\* The thumbnail documents carry the label of the page they show.
PdfThumbnailLabels ==
    \A i \in 1..Len(pdf.documents) :
        pdf.documents[i].type = "thumbnail" =>
            pdf.documents[i].page_label = pdf.file[pdf.documents[i].image_origin].label

\* Every text document holds descriptions of its own page only, and a
\* page whose text document is in the list has all its descriptions in it.
PdfDescriptionsOnOwnPage ==
    /\ \A i \in 1..Len(pdf.documents) :
          pdf.documents[i].type = "text" =>
              \A k \in 1..Len(pdf.documents[i].parts) :
                  pdf.documents[i].parts[k].page = pdf.documents[i].parts[1].page
    /\ pdf.pc = "done" =>
          \A i \in 1..Len(pdf.documents) :
              pdf.documents[i].type = "text" =>
                  Len(pdf.documents[i].parts)
                      = 1 + Len(DescriptionsOf(pdf.file, pdf.documents[i].parts[1].page))

\* C21: when some pages of the PDF carry a label that is not an integer,
\* the diagram and image descriptions of a physical page are appended to
\* the text document of that same page, never to another page's, and
\* every thumbnail document carries the label of the page it was rendered
\* from.
C21_DescriptionsStayOnPage ==
    (pdf.pc # "filter" /\ \E p \in 1..Len(pdf.file) : ~IsIntLabel(pdf.file[p].label)) =>
        /\ PdfDescriptionsOnOwnPage
        /\ PdfThumbnailLabels

\* With every page label an integer the list is not shortened, and the
\* descriptions and thumbnails are on their own pages.
PdfAlignedWhenAllInteger ==
    (pdf.pc # "filter" /\ \A p \in 1..Len(pdf.file) : IsIntLabel(pdf.file[p].label)) =>
        /\ PdfDescriptionsOnOwnPage
        /\ PdfThumbnailLabels

====
